---- MODULE Spec2Model ----
(***************************************************************************)
(* A model of the REX client library (package rex): the Client with its    *)
(* access token and user, the Executor, and the exported operations that   *)
(* talk to the REX REST API through an http.Client.                        *)
(*                                                                         *)
(* The http.Client is the environment.  Every call of Do is answered by    *)
(* one Outcome: a transport failure or a response with an arbitrary status *)
(* and body.  An operation is one action; the answers its requests get are *)
(* drawn in the order the operation issues the requests (the sequence rt). *)
(* The variable call holds the finished call: the requests it sent, the    *)
(* answers it consumed and what it returned.  Return is the caller taking  *)
(* the result and getting ready for its next call.                         *)
(*                                                                         *)
(* Spec runs the operations against any transport, SpecText runs           *)
(* GetProjects and DownloadFile on every text a response can carry,        *)
(* SpecJSON encodes and decodes addresses and transformations, SpecServer  *)
(* runs CreateProject and UploadProjectFile against a platform that keeps  *)
(* the records it creates (the variable server).                           *)
(***************************************************************************)
EXTENDS Integers, Sequences, FiniteSets, TLC

VARIABLES
    Token,  \* Client.Token.AccessToken, "" in a fresh client
    User,   \* Client.User, a *User
    call,   \* the last call: operation, arguments, requests, answers, result
    server  \* the records of the REX platform the client talks to

vars == <<Token, User, call, server>>

-----------------------------------------------------------------------------
(* Bounds of the model *)

MaxTextLen == 5      \* longest self link / header value, in symbols
MaxProjects == 2     \* longest project list of a GetProjects response
MaxCoordinates == 2  \* longest Position.Coordinates of a transformation
MaxRecords == 6      \* most records (projects, references, files) of the platform

-----------------------------------------------------------------------------
(* Endpoints *)

RexBaseURL == "https://rex.robotic-eyes.com"
apiAuth == "/oauth/token"
apiCurrentUser == "/api/v2/users/current"
apiUsers == "/api/v2/users"
apiFindByEmail == "/api/v2/users/search/findUserIdByEmail?email="
apiFindByID == "/api/v2/users/search/findByUserId?userId="
apiProject == "/api/v2/projects/"
apiProjects == "/api/v2/projects"
apiRexReferences == "/api/v2/rexReferences"
apiProjectByOwner == "/api/v2/projects/search/findAllByOwner?owner="
apiProjectFiles == "/api/v2/projectFiles/"

-----------------------------------------------------------------------------
(* JSON bodies.  A body is the set of members the library reads from it;   *)
(* Absent marks a member the document does not have.  json says whether    *)
(* the document is well formed: encoding/json refuses a malformed one,     *)
(* gjson does not validate and still finds the members that are there.     *)

Absent == "<absent>"

EmptyObject ==
    [json |-> TRUE, access_token |-> Absent, userId |-> Absent, userHref |-> Absent,
     selfHref |-> Absent, uploadHref |-> Absent, totalElements |-> 0,
     projects |-> <<>>]

\* gjson.Get(body, path).String(): "" when the path is not there
gjsonString(member) == IF member = Absent THEN "" ELSE member

-----------------------------------------------------------------------------
(* Errors.  The zero record is Go's nil error; fmt.Errorf keeps the format *)
(* and the arguments that fill its verbs.                                  *)

Nil == [format |-> "", code |-> 0, body |-> EmptyObject]

Errorf(format, code, body) == [format |-> format, code |-> code, body |-> body]

TransportErr == Errorf("transport", 0, EmptyObject)
SyntaxErr == Errorf("invalid character", 0, EmptyObject)

-----------------------------------------------------------------------------
(* http.Client.Do: the outcomes of one request.                            *)
(*   neterr   - (nil, err): the request failed, there is no response       *)
(*   redirerr - (resp, err): CheckRedirect failed, resp.Body is closed     *)
(*   resp     - (resp, nil)                                                *)
(*   starve   - the script of the transport has no answer left             *)

Outcome(kind, status, body) ==
    [kind |-> kind, status |-> status, body |-> body, disposition |-> <<>>]

\* a response with a Content-Disposition header
Disposed(status, body, header) == [Outcome("resp", status, body) EXCEPT !.disposition = header]

NetErr == Outcome("neterr", 0, EmptyObject)
RedirErr == Outcome("redirerr", 302, EmptyObject)
Starve == Outcome("starve", 0, EmptyObject)

Do(rt) == IF rt = <<>> THEN Starve ELSE Head(rt)

\* err != nil after Do
Failed(o) == o.kind \in {"neterr", "redirerr"}

\* resp == nil after Do
NilResp(o) == o.kind = "neterr"

\* What the code has done with the body of the response to a request by the
\* time it sends its next request or returns: "read" (ioutil.ReadAll or
\* io.Copy into a file, to the end), "discarded" (io.Copy into
\* ioutil.Discard), "partial" (a Decode and no more), "untouched".  A failed
\* request has no body ("none") or one that Do has closed ("closed").
BodyLog(o, how) ==
    IF o.kind = "starve" THEN <<>>
    ELSE IF NilResp(o) THEN <<"none">>
    ELSE IF Failed(o) THEN <<"closed">>
    ELSE <<how>>

-----------------------------------------------------------------------------
(* Requests *)

NoPayload == [kind |-> "none"]

\* a string url.Parse rejects (an invalid escape, a control character)
Unparsable == "%zz"

\* the nil *http.Request http.NewRequest returns with its error
NilRequest == [method |-> "nil"]

\* http.NewRequest: the URL is the concatenation of the parts; the error is
\* dropped by every caller (req, _ := ...)
NewRequest(method, url, payload) ==
    IF \E i \in 1..Len(url) : url[i] = Unparsable
    THEN NilRequest
    ELSE [method |-> method, url |-> url, authorization |-> <<>>, accept |-> <<>>,
          contentType |-> "", payload |-> payload]

\* oauth2.Token.SetAuthHeader: Authorization is set to Type() and the token
SetAuthHeader(tok, req) == [req EXCEPT !.authorization = <<"Bearer", tok>>]

\* req.Header.Add("accept", v) appends a value
AddAccept(req, v) == [req EXCEPT !.accept = Append(@, v)]

\* Client.Execute, up to the call of Do
Execute(tok, req) == SetAuthHeader(tok, AddAccept(req, "application/json"))

-----------------------------------------------------------------------------
(* Users *)

NilUser == [nil |-> TRUE, UserID |-> "", Href |-> "", SelfLink |-> ""]

\* var user User
ZeroUser == [nil |-> FALSE, UserID |-> "", Href |-> "", SelfLink |-> ""]

\* json.Unmarshal(body, &u) / Decode(&u): the members the document has are
\* stored into u, a malformed document leaves u as it was
DecodeUser(body, u) ==
    [u EXCEPT !.UserID = IF body.json /\ body.userId # Absent THEN body.userId ELSE @,
              !.Href = IF body.json /\ body.userHref # Absent THEN body.userHref ELSE @]

\* GetCurrentUser(c): (user, err) and the request it sent.  The request is
\* sent with c.httpClient.Do, not with Execute.
GetCurrentUser(tok, rt) ==
    LET req == SetAuthHeader(tok, NewRequest("GET", <<RexBaseURL, apiCurrentUser>>, NoPayload))
        o == Do(rt)
        u == DecodeUser(o.body, ZeroUser)
        R(starved, user, err) ==
            [starved |-> starved, reqs |-> <<req>>, bodies |-> BodyLog(o, "read"),
             panic |-> FALSE, user |-> user, err |-> err]
    IN  IF o.kind = "starve" THEN R(TRUE, NilUser, Nil)
        ELSE IF Failed(o) THEN R(FALSE, NilUser, TransportErr)
        ELSE R(FALSE, [u EXCEPT !.SelfLink = u.Href], IF o.body.json THEN Nil ELSE SyntaxErr)

\* GetTotalNumberOfUsers that asks the token endpoint for a token when the
\* platform answers 401
GetTotalNumberOfUsersRefreshing(tok, rt) ==
    LET req == SetAuthHeader(tok, NewRequest("GET", <<RexBaseURL, apiUsers>>, NoPayload))
        o == Do(rt)
        fetch == NewRequest("POST", <<RexBaseURL, apiAuth>>,
                            [kind |-> "form", grant_type |-> "client_credentials"])
        ot == Do(Tail(rt))
        R(starved, n, err) ==
            [starved |-> starved, reqs |-> <<req>>, bodies |-> BodyLog(o, "read"),
             panic |-> FALSE, count |-> n, err |-> err]
    IN  IF o.kind = "starve" THEN R(TRUE, 0, Nil)
        ELSE IF Failed(o) THEN R(FALSE, 0, TransportErr)
        ELSE IF o.status = 401
             THEN [starved |-> ot.kind = "starve", reqs |-> <<req, fetch>>,
                   bodies |-> BodyLog(o, "read") \o BodyLog(ot, "read"),
                   panic |-> FALSE, count |-> o.body.totalElements, err |-> Nil]
        ELSE R(FALSE, o.body.totalElements, Nil)

\* GetTotalNumberOfUsers: gjson's Uint() of a missing member is 0
GetTotalNumberOfUsers(tok, rt) ==
    LET req == SetAuthHeader(tok, NewRequest("GET", <<RexBaseURL, apiUsers>>, NoPayload))
        o == Do(rt)
        R(starved, n, err) ==
            [starved |-> starved, reqs |-> <<req>>, bodies |-> BodyLog(o, "read"),
             panic |-> FALSE, count |-> n, err |-> err]
    IN  IF o.kind = "starve" THEN R(TRUE, 0, Nil)
        ELSE IF Failed(o) THEN R(FALSE, 0, TransportErr)
        ELSE R(FALSE, o.body.totalElements, Nil)

\* GetUserByEmail that looks the user up whatever the first lookup found
GetUserByEmailUnchecked(tok, email, rt) ==
    LET req1 == SetAuthHeader(tok, NewRequest("GET", <<RexBaseURL, apiFindByEmail, email>>, NoPayload))
        o1 == Do(rt)
        user == DecodeUser(o1.body, ZeroUser)
        req2 == SetAuthHeader(tok, NewRequest("GET", <<RexBaseURL, apiFindByID, user.UserID>>, NoPayload))
        o2 == Do(Tail(rt))
        R(starved, reqs, u, err) ==
            [starved |-> starved, reqs |-> reqs,
             bodies |-> BodyLog(o1, "discarded")
                        \o (IF Len(reqs) = 2 THEN BodyLog(o2, "discarded") ELSE <<>>),
             panic |-> FALSE, user |-> u, err |-> err]
    IN  IF o1.kind = "starve" THEN R(TRUE, <<req1>>, NilUser, Nil)
        ELSE IF Failed(o1) THEN R(FALSE, <<req1>>, NilUser, TransportErr)
        ELSE IF o2.kind = "starve" THEN R(TRUE, <<req1, req2>>, NilUser, Nil)
        ELSE IF Failed(o2) THEN R(FALSE, <<req1, req2>>, NilUser, TransportErr)
        ELSE R(FALSE, <<req1, req2>>, DecodeUser(o2.body, user), Nil)

\* GetUserByEmail without the io.Copy that follows the first Decode: the
\* rest of the first body is still unread when the second request is sent
GetUserByEmailUndrained(tok, email, rt) ==
    LET req1 == SetAuthHeader(tok, NewRequest("GET", <<RexBaseURL, apiFindByEmail, email>>, NoPayload))
        o1 == Do(rt)
        user == DecodeUser(o1.body, ZeroUser)
        req2 == SetAuthHeader(tok, NewRequest("GET", <<RexBaseURL, apiFindByID, user.UserID>>, NoPayload))
        o2 == Do(Tail(rt))
        R(starved, reqs, u, err) ==
            [starved |-> starved, reqs |-> reqs,
             bodies |-> BodyLog(o1, "partial")
                        \o (IF Len(reqs) = 2 THEN BodyLog(o2, "discarded") ELSE <<>>),
             panic |-> FALSE, user |-> u, err |-> err]
    IN  IF o1.kind = "starve" THEN R(TRUE, <<req1>>, NilUser, Nil)
        ELSE IF Failed(o1) THEN R(FALSE, <<req1>>, NilUser, TransportErr)
        ELSE IF ~o1.body.json \/ user.UserID = ""
             THEN R(FALSE, <<req1>>, ZeroUser, Errorf("user not found", 0, EmptyObject))
        ELSE IF o2.kind = "starve" THEN R(TRUE, <<req1, req2>>, NilUser, Nil)
        ELSE IF Failed(o2) THEN R(FALSE, <<req1, req2>>, NilUser, TransportErr)
        ELSE R(FALSE, <<req1, req2>>, DecodeUser(o2.body, user), Nil)

\* GetUserByEmail
GetUserByEmail(tok, email, rt) ==
    LET req1 == SetAuthHeader(tok, NewRequest("GET", <<RexBaseURL, apiFindByEmail, email>>, NoPayload))
        o1 == Do(rt)
        user == DecodeUser(o1.body, ZeroUser)
        req2 == SetAuthHeader(tok, NewRequest("GET", <<RexBaseURL, apiFindByID, user.UserID>>, NoPayload))
        o2 == Do(Tail(rt))
        R(starved, reqs, u, err) ==
            [starved |-> starved, reqs |-> reqs,
             bodies |-> BodyLog(o1, "discarded")
                        \o (IF Len(reqs) = 2 THEN BodyLog(o2, "discarded") ELSE <<>>),
             panic |-> FALSE, user |-> u, err |-> err]
    IN  IF o1.kind = "starve" THEN R(TRUE, <<req1>>, NilUser, Nil)
        ELSE IF Failed(o1) THEN R(FALSE, <<req1>>, NilUser, TransportErr)
        ELSE IF ~o1.body.json \/ user.UserID = ""
             THEN R(FALSE, <<req1>>, ZeroUser, Errorf("user not found", 0, EmptyObject))
        ELSE IF o2.kind = "starve" THEN R(TRUE, <<req1, req2>>, NilUser, Nil)
        ELSE IF Failed(o2) THEN R(FALSE, <<req1, req2>>, NilUser, TransportErr)
        ELSE R(FALSE, <<req1, req2>>, DecodeUser(o2.body, user), Nil)

-----------------------------------------------------------------------------
(* Login *)

\* b64.StdEncoding.EncodeToString(clientID + ":" + clientSecret)
b64(clientID, clientSecret) == <<"base64", clientID, ":", clientSecret>>

\* fetchToken without the check of resp.StatusCode
fetchTokenAnyStatus(tok, clientID, clientSecret, rt) ==
    LET req == [NewRequest("POST", <<RexBaseURL, apiAuth>>,
                           [kind |-> "form", grant_type |-> "client_credentials"])
                  EXCEPT !.authorization = <<"Basic", b64(clientID, clientSecret)>>,
                         !.contentType = "application/x-www-form-urlencoded; charset=ISO-8859-1",
                         !.accept = <<"application/json">>]
        o == Do(rt)
    IN  IF o.kind = "starve" THEN [starved |-> TRUE, reqs |-> <<req>>, bodies |-> BodyLog(o, "read"), token |-> tok, err |-> Nil]
        ELSE IF Failed(o)
             THEN [starved |-> FALSE, reqs |-> <<req>>, bodies |-> BodyLog(o, "read"), token |-> tok,
                   err |-> TransportErr]
        ELSE IF ~o.body.json
             THEN [starved |-> FALSE, reqs |-> <<req>>, bodies |-> BodyLog(o, "read"), token |-> tok,
                   err |-> SyntaxErr]
        ELSE [starved |-> FALSE, reqs |-> <<req>>, bodies |-> BodyLog(o, "read"),
              token |-> IF o.body.access_token # Absent THEN o.body.access_token ELSE tok,
              err |-> Nil]

\* fetchToken that decodes the body into the token before it looks at the status
fetchTokenDecodeFirst(tok, clientID, clientSecret, rt) ==
    LET req == [NewRequest("POST", <<RexBaseURL, apiAuth>>,
                           [kind |-> "form", grant_type |-> "client_credentials"])
                  EXCEPT !.authorization = <<"Basic", b64(clientID, clientSecret)>>,
                         !.contentType = "application/x-www-form-urlencoded; charset=ISO-8859-1",
                         !.accept = <<"application/json">>]
        o == Do(rt)
    IN  IF o.kind = "starve" THEN [starved |-> TRUE, reqs |-> <<req>>, bodies |-> BodyLog(o, "read"), token |-> tok, err |-> Nil]
        ELSE IF Failed(o)
             THEN [starved |-> FALSE, reqs |-> <<req>>, bodies |-> BodyLog(o, "read"), token |-> tok,
                   err |-> TransportErr]
        ELSE IF o.status # 200
             THEN [starved |-> FALSE, reqs |-> <<req>>, bodies |-> BodyLog(o, "read"),
                   token |-> IF o.body.json /\ o.body.access_token # Absent
                             THEN o.body.access_token ELSE tok,
                   err |-> Errorf("Server did not respond properly", 0, EmptyObject)]
        ELSE IF ~o.body.json
             THEN [starved |-> FALSE, reqs |-> <<req>>, bodies |-> BodyLog(o, "read"), token |-> tok,
                   err |-> SyntaxErr]
        ELSE [starved |-> FALSE, reqs |-> <<req>>, bodies |-> BodyLog(o, "read"),
              token |-> IF o.body.access_token # Absent THEN o.body.access_token ELSE tok,
              err |-> Nil]

\* Client.fetchToken: the token after the call, err and the request
fetchToken(tok, clientID, clientSecret, rt) ==
    LET req == [NewRequest("POST", <<RexBaseURL, apiAuth>>,
                           [kind |-> "form", grant_type |-> "client_credentials"])
                  EXCEPT !.authorization = <<"Basic", b64(clientID, clientSecret)>>,
                         !.contentType = "application/x-www-form-urlencoded; charset=ISO-8859-1",
                         !.accept = <<"application/json">>]
        o == Do(rt)
    IN  IF o.kind = "starve" THEN [starved |-> TRUE, reqs |-> <<req>>, bodies |-> BodyLog(o, "read"), token |-> tok, err |-> Nil]
        ELSE IF Failed(o)
             THEN [starved |-> FALSE, reqs |-> <<req>>, bodies |-> BodyLog(o, "read"), token |-> tok,
                   err |-> TransportErr]
        ELSE IF o.status # 200
             THEN [starved |-> FALSE, reqs |-> <<req>>, bodies |-> BodyLog(o, "read"), token |-> tok,
                   err |-> Errorf("Server did not respond properly", 0, EmptyObject)]
        ELSE IF ~o.body.json
             THEN [starved |-> FALSE, reqs |-> <<req>>, bodies |-> BodyLog(o, "read"), token |-> tok,
                   err |-> SyntaxErr]
        ELSE [starved |-> FALSE, reqs |-> <<req>>, bodies |-> BodyLog(o, "read"),
              token |-> IF o.body.access_token # Absent THEN o.body.access_token ELSE tok,
              err |-> Nil]

\* Client.Login: the client's Token and User after the call, and err
Login(tok, user, clientID, clientSecret, rt) ==
    LET t == fetchToken(tok, clientID, clientSecret, rt)
        u == GetCurrentUser(t.token, Tail(rt))
    IN  IF t.starved \/ t.err # Nil
        THEN [starved |-> t.starved, reqs |-> t.reqs, bodies |-> t.bodies, err |-> t.err,
              panic |-> FALSE,
              Token |-> t.token, User |-> user]
        ELSE [starved |-> u.starved, reqs |-> t.reqs \o u.reqs, bodies |-> t.bodies \o u.bodies,
              err |-> u.err, panic |-> FALSE,
              Token |-> t.token, User |-> u.user]

\* NewClientWithToken: the new client's Token and User, and err
NewClientWithToken(token, rt) ==
    LET u == GetCurrentUser(token, rt)
    IN  [starved |-> u.starved, reqs |-> u.reqs, bodies |-> u.bodies, err |-> u.err,
         panic |-> FALSE,
         Token |-> token, User |-> u.user]

-----------------------------------------------------------------------------
(* References and projects *)

\* The Reference struct as json.NewEncoder(b).Encode(r) sends it; the zero
\* value of a field left out of the literal is sent too ("" , false, null).
Reference(project, rootReference, parentReference, key, address, abs, transform) ==
    [kind |-> "reference", key |-> key, project |-> project,
     parentReference |-> parentReference, rootReference |-> rootReference,
     address |-> address, absoluteTransformation |-> abs,
     relativeTransformation |-> "nil", fileTransformation |-> transform]

\* a rexReference literal that hangs the reference below the project's link
rexReferenceOfProjectWithParent(projectSelfLink, key, address, abs) ==
    Reference(projectSelfLink, FALSE, projectSelfLink, key, address, abs, "nil")

\* the rexReference literal of CreateProject: a root reference of the project
rexReferenceOfProject(projectSelfLink, key, address, abs) ==
    Reference(projectSelfLink, TRUE, "", key, address, abs, "nil")

\* a rexReference literal of UploadProjectFile that keeps the root flag of
\* the literal of CreateProject
rexReferenceOfFileAsRoot(project, parentReferenceURL, key, transform) ==
    Reference(project, TRUE, parentReferenceURL, key, "nil", "nil", transform)

\* the rexReference literal of UploadProjectFile: a reference below the root
rexReferenceOfFile(project, parentReferenceURL, key, transform) ==
    Reference(project, FALSE, parentReferenceURL, key, "nil", "nil", transform)

\* the error of a refused request without the body of the response
StatusErrorNoBody(o) == Errorf("Got server status %d with error: %s ", o.status, EmptyObject)

\* fmt.Errorf("Got server status %d with error: %s ", resp.StatusCode, body)
StatusError(o) == Errorf("Got server status %d with error: %s ", o.status, o.body)

\* createRexReference that takes every status below 500 for success
createRexReferenceLax(tok, r, rt) ==
    LET req == Execute(tok, NewRequest("POST", <<RexBaseURL, apiRexReferences>>, r))
        o == Do(rt)
        R(starved, panic, link, err) ==
            [starved |-> starved, reqs |-> <<req>>, bodies |-> BodyLog(o, "read"),
             panic |-> panic, link |-> link, err |-> err]
    IN  IF o.kind = "starve" THEN R(TRUE, FALSE, "", Nil)
        ELSE IF NilResp(o) THEN R(FALSE, TRUE, "", Nil)
        ELSE IF Failed(o) THEN R(FALSE, FALSE, "", TransportErr)
        ELSE IF o.status >= 500 THEN R(FALSE, FALSE, "", StatusError(o))
        ELSE R(FALSE, FALSE, gjsonString(o.body.selfHref), Nil)

\* createRexReference: the self link of the new reference and err.  The
\* deferred function reads resp.Body before err is looked at: with a nil
\* resp the call panics instead of returning.
createRexReference(tok, r, rt) ==
    LET req == Execute(tok, NewRequest("POST", <<RexBaseURL, apiRexReferences>>, r))
        o == Do(rt)
        R(starved, panic, link, err) ==
            [starved |-> starved, reqs |-> <<req>>, bodies |-> BodyLog(o, "read"),
             panic |-> panic, link |-> link, err |-> err]
    IN  IF o.kind = "starve" THEN R(TRUE, FALSE, "", Nil)
        ELSE IF NilResp(o) THEN R(FALSE, TRUE, "", Nil)
        ELSE IF Failed(o) THEN R(FALSE, FALSE, "", TransportErr)
        ELSE IF o.status # 201
             THEN R(FALSE, FALSE, "", StatusError(o))
        ELSE R(FALSE, FALSE, gjsonString(o.body.selfHref), Nil)

\* CreateProject that deletes the project again when the root reference
\* could not be created
CreateProjectWithRollback(tok, userID, name, address, abs, key, rt) ==
    LET req == Execute(tok, NewRequest("POST", <<RexBaseURL, apiProjects>>,
                                       [kind |-> "project", name |-> name, owner |-> userID]))
        o == Do(rt)
        projectSelfLink == gjsonString(o.body.selfHref)
        rexReference == rexReferenceOfProject(projectSelfLink, key, address, abs)
        c == createRexReference(tok, rexReference, Tail(rt))
        del == Execute(tok, NewRequest("DELETE", <<projectSelfLink>>, NoPayload))
        od == Do(Tail(Tail(rt)))
        R(starved, err) ==
            [starved |-> starved, reqs |-> <<req>>, bodies |-> BodyLog(o, "read"),
             panic |-> FALSE, err |-> err]
    IN  IF o.kind = "starve" THEN R(TRUE, Nil)
        ELSE IF Failed(o) THEN R(FALSE, TransportErr)
        ELSE IF o.status # 201
             THEN R(FALSE, StatusError(o))
        ELSE IF c.starved \/ c.panic \/ c.err = Nil
             THEN [starved |-> c.starved, reqs |-> <<req>> \o c.reqs,
                   bodies |-> BodyLog(o, "read") \o c.bodies, panic |-> c.panic, err |-> c.err]
        ELSE [starved |-> od.kind = "starve", reqs |-> <<req>> \o c.reqs \o <<del>>,
              bodies |-> BodyLog(o, "read") \o c.bodies \o BodyLog(od, "discarded"),
              panic |-> FALSE, err |-> c.err]

\* CreateProject
CreateProject(tok, userID, name, address, abs, key, rt) ==
    LET req == Execute(tok, NewRequest("POST", <<RexBaseURL, apiProjects>>,
                                       [kind |-> "project", name |-> name, owner |-> userID]))
        o == Do(rt)
        projectSelfLink == gjsonString(o.body.selfHref)
        rexReference == rexReferenceOfProject(projectSelfLink, key, address, abs)
        c == createRexReference(tok, rexReference, Tail(rt))
        R(starved, err) ==
            [starved |-> starved, reqs |-> <<req>>, bodies |-> BodyLog(o, "read"),
             panic |-> FALSE, err |-> err]
    IN  IF o.kind = "starve" THEN R(TRUE, Nil)
        ELSE IF Failed(o) THEN R(FALSE, TransportErr)
        ELSE IF o.status # 201
             THEN R(FALSE, StatusError(o))
        ELSE [starved |-> c.starved, reqs |-> <<req>> \o c.reqs,
              bodies |-> BodyLog(o, "read") \o c.bodies, panic |-> c.panic,
              err |-> c.err]

\* uploadFileContent that posts to the project files endpoint, not to the
\* upload link it was given
uploadFileContentToFiles(tok, uploadURL, fileName, content, rt) ==
    LET req == Execute(tok,
                  [NewRequest("POST", <<RexBaseURL, apiProjectFiles>>,
                              [kind |-> "multipart", field |-> "file",
                               fileName |-> fileName, content |-> content])
                     EXCEPT !.contentType = "multipart/form-data"])
        o == Do(rt)
        R(starved, panic, err) ==
            [starved |-> starved, reqs |-> <<req>>, bodies |-> BodyLog(o, "discarded"),
             panic |-> panic, err |-> err]
    IN  IF o.kind = "starve" THEN R(TRUE, FALSE, Nil)
        ELSE IF NilResp(o) THEN R(FALSE, TRUE, Nil)
        ELSE IF Failed(o) THEN R(FALSE, FALSE, TransportErr)
        ELSE R(FALSE, FALSE, Nil)

\* uploadFileContent: resp.Body is read before err is looked at, and the
\* status of the response is not looked at.
uploadFileContent(tok, uploadURL, fileName, content, rt) ==
    LET req == Execute(tok,
                  [NewRequest("POST", <<uploadURL>>,
                              [kind |-> "multipart", field |-> "file",
                               fileName |-> fileName, content |-> content])
                     EXCEPT !.contentType = "multipart/form-data"])
        o == Do(rt)
        R(starved, panic, err) ==
            [starved |-> starved, reqs |-> <<req>>, bodies |-> BodyLog(o, "discarded"),
             panic |-> panic, err |-> err]
    IN  IF o.kind = "starve" THEN R(TRUE, FALSE, Nil)
        ELSE IF NilResp(o) THEN R(FALSE, TRUE, Nil)
        ELSE IF Failed(o) THEN R(FALSE, FALSE, TransportErr)
        ELSE R(FALSE, FALSE, Nil)

\* UploadProjectFile
UploadProjectFile(tok, projectID, name, fileName, transform, content, key, rt) ==
    LET project == <<RexBaseURL, apiProjects, "/", projectID>>
        req1 == Execute(tok, NewRequest("GET", project \o <<"/rootRexReference">>, NoPayload))
        o1 == Do(rt)
        parentReferenceURL == gjsonString(o1.body.selfHref)
        rexReference == rexReferenceOfFile(project, parentReferenceURL, key, transform)
        c == createRexReference(tok, rexReference, Tail(rt))
        req3 == Execute(tok, NewRequest("POST", <<RexBaseURL, apiProjectFiles>>,
                                        [kind |-> "projectFile", name |-> name,
                                         project |-> project, rexReference |-> c.link]))
        o3 == Do(Tail(Tail(rt)))
        uploadURL == gjsonString(o3.body.uploadHref)
        u == uploadFileContent(tok, uploadURL, fileName, content, Tail(Tail(Tail(rt))))
        \* the body of step 1 is discarded when the status is not 200 and read
        \* otherwise; the body of step 3 is read before its status is looked at
        b1 == BodyLog(o1, IF o1.status # 200 THEN "discarded" ELSE "read")
        b3 == BodyLog(o3, "read")
        R(starved, reqs, bodies, panic, err) ==
            [starved |-> starved, reqs |-> reqs, bodies |-> bodies, panic |-> panic, err |-> err]
    IN  IF o1.kind = "starve" THEN R(TRUE, <<req1>>, b1, FALSE, Nil)
        ELSE IF Failed(o1) THEN R(FALSE, <<req1>>, b1, FALSE, TransportErr)
        ELSE IF o1.status # 200
             THEN R(FALSE, <<req1>>, b1, FALSE,
                    Errorf("Cannot create project file reference, because no project reference is set",
                           0, EmptyObject))
        ELSE IF c.starved \/ c.panic \/ c.err # Nil
             THEN R(c.starved, <<req1>> \o c.reqs, b1 \o c.bodies, c.panic, c.err)
        ELSE IF o3.kind = "starve"
             THEN R(TRUE, <<req1>> \o c.reqs \o <<req3>>, b1 \o c.bodies \o b3, FALSE, Nil)
        ELSE IF Failed(o3)
             THEN R(FALSE, <<req1>> \o c.reqs \o <<req3>>, b1 \o c.bodies \o b3, FALSE, TransportErr)
        ELSE IF o3.status # 201
             THEN R(FALSE, <<req1>> \o c.reqs \o <<req3>>, b1 \o c.bodies \o b3, FALSE,
                    StatusError(o3))
        ELSE R(u.starved, <<req1>> \o c.reqs \o <<req3>> \o u.reqs,
               b1 \o c.bodies \o b3 \o u.bodies, u.panic, u.err)

-----------------------------------------------------------------------------
(* Text.  A self link or a header value is a sequence of symbols; a        *)
(* literal of a pattern is a sequence of symbols too.                      *)

\* whether pat occurs in s at position i
At(s, pat, i) ==
    /\ i >= 1
    /\ i + Len(pat) - 1 <= Len(s)
    /\ SubSeq(s, i, i + Len(pat) - 1) = pat

\* the end of the line that position i of s is on: `.' matches no newline
LineEnd(s, i) ==
    LET nl == {j \in i..Len(s) : s[j] = "\n"}
    IN  IF nl = {} THEN Len(s) ELSE (CHOOSE j \in nl : \A k \in nl : j <= k) - 1

\* regexp "/projects/(.*)", FindStringSubmatch(s): <<>> without a match,
\* else the match and its group (leftmost match, greedy group)
ProjectsLit == <<"/", "projects", "/">>

FindProjects(s) ==
    LET starts == {i \in 1..Len(s) : At(s, ProjectsLit, i)}
        i == CHOOSE x \in starts : \A y \in starts : x <= y
        from == i + Len(ProjectsLit)
    IN  IF starts = {} THEN <<>>
        ELSE <<SubSeq(s, i, LineEnd(s, from)), SubSeq(s, from, LineEnd(s, from))>>

FilenameLit == <<"filename=", "\"">>

\* the pattern "filename=(.*)": the group keeps the quotes
FindFilenameQuoted(s) ==
    LET closes(i) == {j \in (i + Len(FilenameLit))..LineEnd(s, i + Len(FilenameLit)) : s[j] = "\""}
        starts == {i \in 1..Len(s) : At(s, FilenameLit, i) /\ closes(i) # {}}
        i == CHOOSE x \in starts : \A y \in starts : x <= y
        j == CHOOSE x \in closes(i) : \A y \in closes(i) : x >= y
    IN  IF starts = {} THEN <<>>
        ELSE <<SubSeq(s, i, j), SubSeq(s, i + 1, j)>>

\* regexp "filename=\"(.*)\"", FindStringSubmatch(s): the group runs to the
\* last quote of the line
FindFilename(s) ==
    LET closes(i) == {j \in (i + Len(FilenameLit))..LineEnd(s, i + Len(FilenameLit)) : s[j] = "\""}
        starts == {i \in 1..Len(s) : At(s, FilenameLit, i) /\ closes(i) # {}}
        i == CHOOSE x \in starts : \A y \in starts : x <= y
        j == CHOOSE x \in closes(i) : \A y \in closes(i) : x >= y
    IN  IF starts = {} THEN <<>>
        ELSE <<SubSeq(s, i, j), SubSeq(s, i + Len(FilenameLit), j - 1)>>

-----------------------------------------------------------------------------
(* Reading projects and files *)

\* the loop body with the whole match, values[0], as ID
SetIDWholeMatch(p) ==
    LET values == FindProjects(p.href)
    IN  IF Len(values) > 0 THEN [p EXCEPT !.ID = values[1]] ELSE p

\* the loop of GetProjects that sets the ID of one decoded project
SetID(p) ==
    LET values == FindProjects(p.href)
    IN  IF Len(values) > 0 THEN [p EXCEPT !.ID = values[2]] ELSE p

\* Decode(&projects): ID is no member of the wire format and is decoded empty
DecodeProjects(body) ==
    IF body.json
    THEN [i \in 1..Len(body.projects) |-> [ID |-> <<>>, href |-> body.projects[i]]]
    ELSE <<>>

\* GetProjects
GetProjects(tok, userID, rt) ==
    LET req == Execute(tok, NewRequest("GET", <<RexBaseURL, apiProjectByOwner, userID>>, NoPayload))
        o == Do(rt)
        projects == DecodeProjects(o.body)
        R(starved, isnil, ps, err) ==
            [starved |-> starved, reqs |-> <<req>>, bodies |-> BodyLog(o, "discarded"),
             panic |-> FALSE, nil |-> isnil,
             projects |-> ps, err |-> err]
    IN  IF o.kind = "starve" THEN R(TRUE, TRUE, <<>>, Nil)
        ELSE IF Failed(o) THEN R(FALSE, TRUE, <<>>, TransportErr)
        ELSE R(FALSE, FALSE, [i \in 1..Len(projects) |-> SetID(projects[i])],
               IF o.body.json THEN Nil ELSE SyntaxErr)

\* GetProject
\* Execute adds its header to the request it is given: a nil request is
\* dereferenced there and the program panics before anything is sent.
GetProject(tok, projectID, rt) ==
    LET new == NewRequest("GET", <<RexBaseURL, apiProject, projectID>>, NoPayload)
        req == Execute(tok, new)
        o == Do(rt)
        R(starved, isnil, self, err) ==
            [starved |-> starved, reqs |-> <<req>>, bodies |-> BodyLog(o, "discarded"),
             panic |-> FALSE, nil |-> isnil,
             self |-> self, err |-> err]
    IN  IF new = NilRequest
        THEN [starved |-> FALSE, reqs |-> <<>>, bodies |-> <<>>, panic |-> TRUE,
              nil |-> TRUE, self |-> "", err |-> Nil]
        ELSE IF o.kind = "starve" THEN R(TRUE, TRUE, "", Nil)
        ELSE IF Failed(o) THEN R(FALSE, TRUE, "", TransportErr)
        ELSE R(FALSE, FALSE, IF o.body.json THEN gjsonString(o.body.selfHref) ELSE "",
               IF o.body.json THEN Nil ELSE SyntaxErr)

\* os.Create(fileName): no file has the empty name; creating can fail for
\* other reasons too (createOK is false then)
CreateFails(fileName, createOK) == fileName = <<>> \/ ~createOK

\* DownloadFile: err and the file written (name, content)
DownloadFile(tok, link, createOK, rt) ==
    LET req == Execute(tok,
                  AddAccept(NewRequest("GET", <<link>>, NoPayload),
                            "text/html,application/xhtml+xml,application/xml;q=0.9,*/*;q=0.8"))
        o == Do(rt)
        contentInfo == o.disposition
        values == FindFilename(contentInfo)
        fileName == IF Len(values) > 0 THEN values[2] ELSE <<"default.dat">>
        R(starved, written, err) ==
            [starved |-> starved, reqs |-> <<req>>,
             bodies |-> BodyLog(o, IF CreateFails(fileName, createOK) THEN "untouched" ELSE "read"),
             panic |-> FALSE, written |-> written,
             err |-> err]
    IN  IF o.kind = "starve" THEN R(TRUE, <<>>, Nil)
        ELSE IF Failed(o) THEN R(FALSE, <<>>, TransportErr)
        ELSE IF CreateFails(fileName, createOK)
             THEN R(FALSE, <<>>, Errorf("open", 0, EmptyObject))
        ELSE R(FALSE, <<[name |-> fileName, content |-> o.body]>>, Nil)

-----------------------------------------------------------------------------
(* encoding/json on ProjectAddress and ProjectTransformation.  A Go string *)
(* is a sequence of symbols, "0xFF" being a byte that is not valid UTF-8;  *)
(* a float64 is a numeral, "NaN" or "+Inf"; a slice is nil or a sequence.  *)
(* A JSON value is tagged with its type, an object is a record whose       *)
(* fields are the keys of the struct tags.                                 *)

UnsupportedValue == Errorf("json: unsupported value", 0, EmptyObject)

\* a string value: invalid UTF-8 is replaced by the replacement rune
EncodeString(str) ==
    [t |-> "string", v |-> [i \in 1..Len(str) |-> IF str[i] = "0xFF" THEN "U+FFFD" ELSE str[i]]]

\* a float value: NaN and the infinities have no JSON form
FloatOK(f) == f \notin {"NaN", "+Inf"}
EncodeFloat(f) == [t |-> "number", v |-> f]

\* a []float64: null for the nil slice, an array otherwise
SliceOK(sl) == \A i \in 1..Len(sl.elems) : FloatOK(sl.elems[i])
EncodeSlice(sl) ==
    IF sl.isNil THEN [t |-> "null", v |-> <<>>]
    ELSE [t |-> "array", v |-> [i \in 1..Len(sl.elems) |-> EncodeFloat(sl.elems[i])]]

\* decoding into the zero value of the type
DecodeString(j) == IF j.t = "string" THEN j.v ELSE <<>>
DecodeFloat(j) == IF j.t = "number" THEN j.v ELSE "0"
DecodeSlice(j) ==
    IF j.t = "array"
    THEN [isNil |-> FALSE, elems |-> [i \in 1..Len(j.v) |-> DecodeFloat(j.v[i])]]
    ELSE [isNil |-> TRUE, elems |-> <<>>]

\* ProjectAddress whose AddressLine4 carries the tag of AddressLine3: a key
\* two fields claim is left out of the document
MarshalAddressSharedTag(a) ==
    [err |-> Nil,
     doc |-> [addressLine1 |-> EncodeString(a.AddressLine1),
              addressLine2 |-> EncodeString(a.AddressLine2),
              addressLine3 |-> EncodeString(<<>>),
              addressLine4 |-> EncodeString(<<>>),
              postcode |-> EncodeString(a.PostCode),
              city |-> EncodeString(a.City),
              region |-> EncodeString(a.Region),
              country |-> EncodeString(a.Country)]]

\* json.Marshal of a ProjectAddress: every field under the key of its tag
MarshalAddress(a) ==
    [err |-> Nil,
     doc |-> [addressLine1 |-> EncodeString(a.AddressLine1),
              addressLine2 |-> EncodeString(a.AddressLine2),
              addressLine3 |-> EncodeString(a.AddressLine3),
              addressLine4 |-> EncodeString(a.AddressLine4),
              postcode |-> EncodeString(a.PostCode),
              city |-> EncodeString(a.City),
              region |-> EncodeString(a.Region),
              country |-> EncodeString(a.Country)]]

\* json.Unmarshal into a new ProjectAddress
UnmarshalAddress(doc) ==
    [AddressLine1 |-> DecodeString(doc.addressLine1),
     AddressLine2 |-> DecodeString(doc.addressLine2),
     AddressLine3 |-> DecodeString(doc.addressLine3),
     AddressLine4 |-> DecodeString(doc.addressLine4),
     PostCode |-> DecodeString(doc.postcode),
     City |-> DecodeString(doc.city),
     Region |-> DecodeString(doc.region),
     Country |-> DecodeString(doc.country)]

\* the document of the zero ProjectTransformation
ZeroTransformationDoc ==
    [rotation |-> [x |-> EncodeFloat("0"), y |-> EncodeFloat("0"), z |-> EncodeFloat("0")],
     position |-> [type |-> EncodeString(<<>>), coordinates |-> EncodeSlice([isNil |-> TRUE, elems |-> <<>>])]]

\* json.Marshal of a ProjectTransformation: an error and no document when a
\* float of the value has no JSON form
MarshalTransformation(tr) ==
    IF ~(FloatOK(tr.Rotation.X) /\ FloatOK(tr.Rotation.Y) /\ FloatOK(tr.Rotation.Z)
         /\ SliceOK(tr.Position.Coordinates))
    THEN [err |-> UnsupportedValue, doc |-> ZeroTransformationDoc]
    ELSE [err |-> Nil,
          doc |-> [rotation |-> [x |-> EncodeFloat(tr.Rotation.X),
                                 y |-> EncodeFloat(tr.Rotation.Y),
                                 z |-> EncodeFloat(tr.Rotation.Z)],
                   position |-> [type |-> EncodeString(tr.Position.Type),
                                 coordinates |-> EncodeSlice(tr.Position.Coordinates)]]]

\* json.Unmarshal into a new ProjectTransformation
UnmarshalTransformation(doc) ==
    [Rotation |-> [X |-> DecodeFloat(doc.rotation.x),
                   Y |-> DecodeFloat(doc.rotation.y),
                   Z |-> DecodeFloat(doc.rotation.z)],
     Position |-> [Type |-> DecodeString(doc.position.type),
                   Coordinates |-> DecodeSlice(doc.position.coordinates)]]

-----------------------------------------------------------------------------
(* The environment: what the caller passes and what the server answers *)

Statuses == {200, 201, 401, 404, 500}

\* the outcomes of a request whose response body is one of bodies
Answers(bodies) ==
    {NetErr, RedirErr} \cup {Outcome("resp", st, b) : st \in Statuses, b \in bodies}

Malformed == [EmptyObject EXCEPT !.json = FALSE]

TokenBodies ==
    {Malformed} \cup {[EmptyObject EXCEPT !.access_token = a] : a \in {Absent, "", "tokA", "tokB"}}

UserBodies ==
    {Malformed} \cup {[EmptyObject EXCEPT !.userId = id, !.userHref = h] :
                        id \in {Absent, "", "u1"}, h \in {Absent, "users/u1"}}

SelfBodies(link) == {EmptyObject, [EmptyObject EXCEPT !.selfHref = link]}

UploadBodies == {EmptyObject, [EmptyObject EXCEPT !.uploadHref = "projectFiles/7/file"]}

CountBodies == {EmptyObject, [EmptyObject EXCEPT !.totalElements = 12]}

Credentials == {<<"id", "secret">>}
UUIDs == {"uuid-1", "uuid-2"}
Addresses == {"nil", "address"}
Transformations == {"nil", "transformation"}

\* the strings, floats and slices a caller puts into an address or a
\* transformation
GoStrings == {<<>>, <<"Graz">>, <<"Gr", "0xFF">>}
Floats == {"0", "1.5", "NaN", "+Inf"}
Slices ==
    {[isNil |-> TRUE, elems |-> <<>>]}
    \cup {[isNil |-> FALSE, elems |-> e] : e \in UNION {[1..k -> Floats] : k \in 0..MaxCoordinates}}

ProjectAddresses ==
    [AddressLine1 : GoStrings, AddressLine2 : GoStrings, AddressLine3 : GoStrings,
     AddressLine4 : GoStrings, PostCode : GoStrings, City : GoStrings,
     Region : GoStrings, Country : GoStrings]

ProjectTransformations ==
    [Rotation : [X : Floats, Y : Floats, Z : Floats],
     Position : [Type : GoStrings, Coordinates : Slices]]

\* all texts of at most n symbols of alphabet
Texts(alphabet, n) == UNION {[1..k -> alphabet] : k \in 0..n}

LinkAlphabet == {"/", "projects", "1020", "\n"}
HeaderAlphabet == {"filename=", "\"", "model.rex", ";"}

SampleLinks ==
    {<<"api", "/", "projects", "/", "1020">>, <<"api", "/", "users", "/", "u1">>}

SampleHeaders ==
    {<<>>, <<"attachment", ";", "filename=", "\"", "model.rex", "\"">>}

\* project lists of a GetProjects response, with links out of links
ProjectLists(links) == UNION {[1..k -> links] : k \in 0..MaxProjects}

\* project lists in which one link, at any place, is any of links and the
\* others are a sample
ProjectListsWith(links) ==
    {[i \in 1..k |-> IF i = at THEN h ELSE <<"api", "/", "projects", "/", "1020">>] :
        h \in links, k \in 1..MaxProjects, at \in 1..MaxProjects}

ProjectAnswers(lists) ==
    {NetErr, RedirErr}
    \cup {Outcome("resp", st, [EmptyObject EXCEPT !.json = j, !.projects = l]) :
            st \in Statuses, j \in BOOLEAN, l \in lists}

FileAnswers(headers) ==
    {NetErr, RedirErr}
    \cup {Disposed(st, EmptyObject, h) : st \in Statuses, h \in headers}

-----------------------------------------------------------------------------
(* The REX platform.  It keeps the projects, references and project files  *)
(* it was asked to create, and answers a request it accepts with the links *)
(* the library reads from the response.  Every request of the library has  *)
(* one of four fates.                                                      *)
(*   ok     - the platform carries the request out and answers             *)
(*   refuse - the platform answers 500 and does nothing                    *)
(*   down   - the request does not reach the platform                      *)
(*   lost   - the platform carries the request out, the answer is lost     *)

NoRecords == [projects |-> <<>>, references |-> <<>>, files |-> <<>>]

Fates == {"ok", "refuse", "down", "lost"}

\* the links of the n-th project, reference and file
ProjectIDOf(n) == ToString(1019 + n)
ProjectLink(id) == <<RexBaseURL, apiProjects, "/", id>>
ReferenceLink(n) == <<RexBaseURL, apiRexReferences, "/", ToString(n)>>
UploadLink(n) == <<RexBaseURL, apiProjectFiles, ToString(n), "/file">>

\* the root references the platform holds for the project of a link
RootsOf(s, link) ==
    {k \in 1..Len(s.references) :
        s.references[k].rootReference /\ s.references[k].project = link}

\* the records after the platform has carried the request out
Stored(s, req) ==
    IF req.method = "POST" /\ req.url = <<RexBaseURL, apiProjects>>
    THEN [s EXCEPT !.projects = Append(@, ProjectIDOf(Len(@) + 1))]
    ELSE IF req.method = "POST" /\ req.url = <<RexBaseURL, apiRexReferences>>
    THEN [s EXCEPT !.references =
              Append(@, [project |-> req.payload.project,
                         rootReference |-> req.payload.rootReference,
                         parentReference |-> req.payload.parentReference])]
    ELSE IF req.method = "POST" /\ req.url = <<RexBaseURL, apiProjectFiles>>
    THEN [s EXCEPT !.files =
              Append(@, [project |-> req.payload.project,
                         rexReference |-> req.payload.rexReference])]
    ELSE IF req.method = "DELETE"
    THEN [s EXCEPT !.projects = SelectSeq(@, LAMBDA id : <<ProjectLink(id)>> # req.url),
                   !.references =
                       IF \E n \in 1..Len(@) : <<ReferenceLink(n)>> = req.url
                       THEN SubSeq(@, 1, Len(@) - 1)
                       ELSE @]
    ELSE s

\* the answer of the platform to a request it accepts
Reply(s, req) ==
    IF req.method = "POST" /\ req.url = <<RexBaseURL, apiProjects>>
    THEN Outcome("resp", 201,
                 [EmptyObject EXCEPT !.selfHref = ProjectLink(ProjectIDOf(Len(s.projects) + 1))])
    ELSE IF req.method = "POST" /\ req.url = <<RexBaseURL, apiRexReferences>>
    THEN Outcome("resp", 201,
                 [EmptyObject EXCEPT !.selfHref = ReferenceLink(Len(s.references) + 1)])
    ELSE IF req.method = "POST" /\ req.url = <<RexBaseURL, apiProjectFiles>>
    THEN Outcome("resp", 201,
                 [EmptyObject EXCEPT !.uploadHref = UploadLink(Len(s.files) + 1)])
    ELSE IF req.method = "GET" /\ Len(req.url) = 5 /\ req.url[5] = "/rootRexReference"
    THEN LET link == SubSeq(req.url, 1, 4)
         IN  IF RootsOf(s, link) = {}
             THEN Outcome("resp", 404, EmptyObject)
             ELSE Outcome("resp", 200,
                          [EmptyObject EXCEPT !.selfHref =
                              ReferenceLink(CHOOSE k \in RootsOf(s, link) :
                                               \A j \in RootsOf(s, link) : k <= j)])
    ELSE Outcome("resp", 200, EmptyObject)

\* what the fate of a request makes of it: the answer the library gets and
\* the records of the platform afterwards
Handle(s, req, fate) ==
    [answer |-> IF fate = "ok" THEN Reply(s, req)
                ELSE IF fate = "refuse" THEN Outcome("resp", 500, EmptyObject)
                ELSE NetErr,
     server |-> IF fate \in {"ok", "lost"} THEN Stored(s, req) ELSE s]

\* the number of records of the platform
Records(s) == Len(s.projects) + Len(s.references) + Len(s.files)

-----------------------------------------------------------------------------
(* The state machine *)

Idle == [op |-> "idle"]

Init ==
    /\ Token = ""
    /\ User = NilUser
    /\ call = Idle
    /\ server = NoRecords

\* the finished call: the answers it consumed are rt, its result is r
Called(op, args, rt, r) == [op |-> op, args |-> args, rt |-> rt, res |-> r]

LoginDone(args, rt, r) ==
    /\ Token' = r.Token
    /\ User' = r.User
    /\ call' = Called("Login", args, rt, r)
    /\ UNCHANGED server

CallLogin ==
    /\ call = Idle
    /\ \E cred \in Credentials : \E o1 \in Answers(TokenBodies) :
         LET r1 == Login(Token, User, cred[1], cred[2], <<o1>>)
         IN  IF ~r1.starved THEN LoginDone(cred, <<o1>>, r1)
             ELSE \E o2 \in Answers(UserBodies) :
                    LoginDone(cred, <<o1, o2>>, Login(Token, User, cred[1], cred[2], <<o1, o2>>))

CallNewClientWithToken ==
    /\ call = Idle
    /\ \E token \in {"tokA", "tokB"} : \E o1 \in Answers(UserBodies) :
         LET r == NewClientWithToken(token, <<o1>>)
         IN  /\ Token' = r.Token
             /\ User' = r.User
             /\ call' = Called("NewClientWithToken", <<token>>, <<o1>>, r)
             /\ UNCHANGED server

\* an operation that leaves the client as it is
Done(op, args, rt, r) ==
    /\ call' = Called(op, args, rt, r)
    /\ UNCHANGED <<Token, User, server>>

CallGetCurrentUser ==
    /\ call = Idle
    /\ \E o1 \in Answers(UserBodies) :
         Done("GetCurrentUser", <<>>, <<o1>>, GetCurrentUser(Token, <<o1>>))

CallGetTotalNumberOfUsers ==
    /\ call = Idle
    /\ \E o1 \in Answers(CountBodies) :
         Done("GetTotalNumberOfUsers", <<>>, <<o1>>, GetTotalNumberOfUsers(Token, <<o1>>))

CallGetUserByEmail ==
    /\ call = Idle
    /\ \E email \in {"a@b.c"} : \E o1 \in Answers(UserBodies) :
         LET r1 == GetUserByEmail(Token, email, <<o1>>)
         IN  IF ~r1.starved THEN Done("GetUserByEmail", <<email>>, <<o1>>, r1)
             ELSE \E o2 \in Answers(UserBodies) :
                    Done("GetUserByEmail", <<email>>, <<o1, o2>>,
                         GetUserByEmail(Token, email, <<o1, o2>>))

CallCreateProject ==
    /\ call = Idle
    /\ \E userID \in {"u1"}, name \in {"demo"}, address \in Addresses,
          abs \in Transformations, key \in UUIDs :
         \E o1 \in Answers(SelfBodies("projects/1020")) :
           LET args == <<userID, name, address, abs, key>>
               r1 == CreateProject(Token, userID, name, address, abs, key, <<o1>>)
           IN  IF ~r1.starved THEN Done("CreateProject", args, <<o1>>, r1)
               ELSE \E o2 \in Answers(SelfBodies("rexReferences/1")) :
                      Done("CreateProject", args, <<o1, o2>>,
                           CreateProject(Token, userID, name, address, abs, key, <<o1, o2>>))

CallUploadProjectFile ==
    /\ call = Idle
    /\ \E projectID \in {"1020"}, name \in {"model"}, fileName \in {"model.rex"},
          transform \in Transformations, content \in {"bytes"}, key \in UUIDs :
         LET args == <<projectID, name, fileName, transform, content, key>>
             F(rt) == UploadProjectFile(Token, projectID, name, fileName, transform, content, key, rt)
             D(rt) == Done("UploadProjectFile", args, rt, F(rt))
         IN  \E o1 \in Answers(SelfBodies("rexReferences/1")) :
               IF ~F(<<o1>>).starved THEN D(<<o1>>)
               ELSE \E o2 \in Answers(SelfBodies("rexReferences/2")) :
                 IF ~F(<<o1, o2>>).starved THEN D(<<o1, o2>>)
                 ELSE \E o3 \in Answers(UploadBodies) :
                   IF ~F(<<o1, o2, o3>>).starved THEN D(<<o1, o2, o3>>)
                   ELSE \E o4 \in Answers({EmptyObject}) : D(<<o1, o2, o3, o4>>)

CallGetProjects(lists) ==
    /\ call = Idle
    /\ \E userID \in {"u1"} : \E o1 \in ProjectAnswers(lists) :
         Done("GetProjects", <<userID>>, <<o1>>, GetProjects(Token, userID, <<o1>>))

CallGetProject ==
    /\ call = Idle
    /\ \E projectID \in {"1020", Unparsable} :
         IF GetProject(Token, projectID, <<>>).starved
         THEN \E o1 \in Answers(SelfBodies("projects/1020") \cup {Malformed}) :
                 Done("GetProject", <<projectID>>, <<o1>>, GetProject(Token, projectID, <<o1>>))
         ELSE Done("GetProject", <<projectID>>, <<>>, GetProject(Token, projectID, <<>>))

CallDownloadFile(headers) ==
    /\ call = Idle
    /\ \E link \in {"projectFiles/7/file"}, createOK \in BOOLEAN : \E o1 \in FileAnswers(headers) :
         Done("DownloadFile", <<link, createOK>>, <<o1>>,
              DownloadFile(Token, link, createOK, <<o1>>))

\* the caller goes on after the call has returned; a panic ends the program
Return ==
    /\ call # Idle
    /\ ~call.res.panic
    /\ call' = Idle
    /\ UNCHANGED <<Token, User, server>>

Next ==
    \/ CallLogin
    \/ CallNewClientWithToken
    \/ CallGetCurrentUser
    \/ CallGetTotalNumberOfUsers
    \/ CallGetUserByEmail
    \/ CallCreateProject
    \/ CallUploadProjectFile
    \/ CallGetProjects(ProjectLists(SampleLinks))
    \/ CallGetProject
    \/ CallDownloadFile(SampleHeaders)
    \/ Return

Spec == Init /\ [][Next]_vars

\* GetProjects and DownloadFile on every text a response can carry
NextText ==
    \/ CallGetProjects(ProjectListsWith(Texts(LinkAlphabet, MaxTextLen)))
    \/ CallDownloadFile(Texts(HeaderAlphabet, MaxTextLen))
    \/ Return

SpecText == Init /\ [][NextText]_vars

\* Encoding a value and decoding the document again, as a caller or a test
\* of the package does with json.Marshal and json.Unmarshal.
Encoded(op, v, m) ==
    Done(op, <<v>>, <<>>,
         [starved |-> FALSE, reqs |-> <<>>, bodies |-> <<>>, panic |-> FALSE, err |-> m.err,
          doc |-> m.doc])

Decoded(op, v) ==
    Done(op, call.args, <<>>,
         [starved |-> FALSE, reqs |-> <<>>, bodies |-> <<>>, panic |-> FALSE, err |-> Nil,
          value |-> v])

CallMarshalAddress ==
    /\ call = Idle
    /\ \E a \in ProjectAddresses : Encoded("MarshalAddress", a, MarshalAddress(a))

CallUnmarshalAddress ==
    /\ call # Idle
    /\ call.op = "MarshalAddress"
    /\ call.res.err = Nil
    /\ Decoded("UnmarshalAddress", UnmarshalAddress(call.res.doc))

CallMarshalTransformation ==
    /\ call = Idle
    /\ \E tr \in ProjectTransformations :
         Encoded("MarshalTransformation", tr, MarshalTransformation(tr))

CallUnmarshalTransformation ==
    /\ call # Idle
    /\ call.op = "MarshalTransformation"
    /\ call.res.err = Nil
    /\ Decoded("UnmarshalTransformation", UnmarshalTransformation(call.res.doc))

NextJSON ==
    \/ CallMarshalAddress
    \/ CallUnmarshalAddress
    \/ CallMarshalTransformation
    \/ CallUnmarshalTransformation
    \/ Return

SpecJSON == Init /\ [][NextJSON]_vars

\* CreateProject and UploadProjectFile against the platform: every request
\* the call sends is handled by the platform, one fate each, and the answer
\* is what the call goes on with.
Run(op, args, rt) ==
    IF op = "CreateProject"
    THEN CreateProject(Token, args[1], args[2], args[3], args[4], args[5], rt)
    ELSE UploadProjectFile(Token, args[1], args[2], args[3], args[4], args[5], args[6], rt)

RECURSIVE Serve(_, _, _, _, _)
Serve(op, args, s, rt, fates) ==
    LET r == Run(op, args, rt)
    IN  IF ~r.starved \/ fates = <<>>
        THEN [server |-> s, rt |-> rt, res |-> r]
        ELSE LET h == Handle(s, r.reqs[Len(rt) + 1], Head(fates))
             IN  Serve(op, args, h.server, Append(rt, h.answer), Tail(fates))

Served(op, args, fates) ==
    LET d == Serve(op, args, server, <<>>, fates)
    IN  /\ ~d.res.starved
        /\ call' = Called(op, args, d.rt, d.res)
        /\ server' = d.server
        /\ UNCHANGED <<Token, User>>

\* The platform has a fate ready for one request more than the operation has
\* steps: a request the operation sends beyond its steps is handled too.
ServeCreateProject ==
    /\ call = Idle
    /\ Records(server) + 2 <= MaxRecords
    /\ \E fates \in [1..3 -> Fates] :
         Served("CreateProject", <<"u1", "demo", "address", "transformation", "uuid-1">>, fates)

ServeUploadProjectFile ==
    /\ call = Idle
    /\ Records(server) + 2 <= MaxRecords
    /\ \E projectID \in {ProjectIDOf(1), ProjectIDOf(2)}, fates \in [1..5 -> Fates] :
         Served("UploadProjectFile",
                <<projectID, "model", "model.rex", "transformation", "bytes", "uuid-2">>, fates)

NextServer ==
    \/ ServeCreateProject
    \/ ServeUploadProjectFile
    \/ Return

SpecServer == Init /\ [][NextServer]_vars

-----------------------------------------------------------------------------
(* Properties of the finished call *)

\* the call returned an error value
ReturnedError == ~call.res.panic /\ call.res.err # Nil

\* the call returned no error
ReturnedNil == ~call.res.panic /\ call.res.err = Nil

\* the k-th request of the call was answered with a response
Answered(k) == Len(call.rt) >= k /\ call.rt[k].kind = "resp"

\* the requests the call sent to url
Sent(url) == {i \in 1..Len(call.res.reqs) : call.res.reqs[i].url = url}

-----------------------------------------------------------------------------
\* C1: when the token endpoint answers the token request of Login with a
\* status other than 200, Login returns an error and sends no request to
\* /api/v2/users/current.
C1_LoginRefused ==
    (call.op = "Login" /\ Answered(1) /\ call.rt[1].status # 200)
        => /\ ReturnedError
           /\ Sent(<<RexBaseURL, apiCurrentUser>>) = {}
           /\ Len(call.res.reqs) = 1

C1_Witness ==
    /\ call.op = "Login"
    /\ Answered(1)
    /\ call.rt[1].status = 404
    /\ call.rt[1].body.access_token = "tokA"
    /\ ReturnedError

\* C2: whenever Login returns without error, the access token stored in the
\* client is not empty.
C2_TokenNotEmpty ==
    (call.op = "Login" /\ ReturnedNil) => Token # ""

\* C3: in UploadProjectFile, when step k fails (a transport failure, or a
\* status other than 200 at step 1, other than 201 at steps 2 and 3, outside
\* 2xx at step 4), no request of a later step is sent and the call returns an
\* error; when step 1 is answered with a status other than 200 exactly one
\* request is sent.
StepFailed(k) ==
    LET o == call.rt[k]
    IN  \/ Failed(o)
        \/ k = 1 /\ o.status # 200
        \/ k \in {2, 3} /\ o.status # 201
        \/ k = 4 /\ o.status \notin 200..299

C3_UploadShortCircuit ==
    call.op = "UploadProjectFile"
        => \A k \in 1..Len(call.rt) :
              StepFailed(k) => Len(call.res.reqs) = k /\ ReturnedError

\* C4: when the project-create request and the root-reference-create request
\* of CreateProject are both answered 201, CreateProject returns no error and
\* the reference it sent has rootReference = true, an empty parentReference
\* and, as project, the self link of the project-create response.
C4_RootReferenceSent ==
    (call.op = "CreateProject" /\ Answered(1) /\ call.rt[1].status = 201
        /\ Answered(2) /\ call.rt[2].status = 201)
        => /\ ReturnedNil
           /\ Len(call.res.reqs) = 2
           /\ call.res.reqs[2].method = "POST"
           /\ call.res.reqs[2].url = <<RexBaseURL, apiRexReferences>>
           /\ call.res.reqs[2].payload.rootReference = TRUE
           /\ call.res.reqs[2].payload.parentReference = ""
           /\ call.res.reqs[2].payload.project = gjsonString(call.rt[1].body.selfHref)

C4_Witness ==
    /\ call.op = "CreateProject"
    /\ Answered(1) /\ call.rt[1].status = 201 /\ call.rt[1].body.selfHref = "projects/1020"
    /\ Answered(2) /\ call.rt[2].status = 201
    /\ call.res.reqs[2].payload.project = "projects/1020"
    /\ call.res.reqs[2].payload.address = "address"

\* C5: when the root-reference-create request of CreateProject is answered
\* with a status other than 201, CreateProject returns an error whose message
\* holds that status code.
C5_ReferenceRefused ==
    (call.op = "CreateProject" /\ Answered(2) /\ call.rt[2].status # 201)
        => /\ ReturnedError
           /\ call.res.err.format = "Got server status %d with error: %s "
           /\ call.res.err.code = call.rt[2].status

C5_Witness ==
    /\ call.op = "CreateProject"
    /\ Answered(2) /\ call.rt[2].status = 500
    /\ ReturnedError
    /\ call.res.err.code = 500

\* C6: when the project-create request of CreateProject is answered with a
\* status other than 201, CreateProject returns an error that carries the
\* status code and the body of the response, and sends no
\* root-reference-create request.
C6_ProjectRefused ==
    (call.op = "CreateProject" /\ Answered(1) /\ call.rt[1].status # 201)
        => /\ ReturnedError
           /\ call.res.err.format = "Got server status %d with error: %s "
           /\ call.res.err.code = call.rt[1].status
           /\ call.res.err.body = call.rt[1].body
           /\ Len(call.res.reqs) = 1
           /\ Sent(<<RexBaseURL, apiRexReferences>>) = {}

C6_Witness ==
    /\ call.op = "CreateProject"
    /\ Answered(1) /\ call.rt[1].status = 404 /\ call.rt[1].body.selfHref = "projects/1020"
    /\ ReturnedError
    /\ call.res.err.body.selfHref = "projects/1020"

\* C7: when the first lookup of GetUserByEmail yields an empty user
\* identifier or a body that does not decode, GetUserByEmail returns the
\* error "user not found" and sends no findByUserId request.
C7_UserNotFound ==
    (call.op = "GetUserByEmail" /\ Answered(1)
        /\ (~call.rt[1].body.json \/ call.rt[1].body.userId \in {Absent, ""}))
        => /\ ReturnedError
           /\ call.res.err.format = "user not found"
           /\ Len(call.res.reqs) = 1
           /\ \A i \in 1..Len(call.res.reqs) : call.res.reqs[i].url[2] # apiFindByID

C7_Witness ==
    /\ call.op = "GetUserByEmail"
    /\ Answered(1) /\ call.rt[1].status = 200
    /\ call.rt[1].body.json /\ call.rt[1].body.userId = Absent
    /\ call.res.err.format = "user not found"

\* C8: for every project of a GetProjects response, ID is the path segment
\* that follows "/projects/" in the self link of the project ("1020" for
\* ".../projects/1020": the link ends with the segment that follows its
\* first "/projects/"), and ID stays empty when the self link holds no
\* "/projects/".
ProjectsAt(h) == {i \in 1..Len(h) - 2 : h[i] = "/" /\ h[i + 1] = "projects" /\ h[i + 2] = "/"}

\* the text of h from position i on is one path segment
SegmentFrom(h, i) == \A k \in i..Len(h) : h[k] \notin {"/", "\n"}

Quotes(h) == {i \in 1..Len(h) : h[i] = "\""}

\* the file DownloadFile must have written when the name of the file is name
WrittenAs(name) ==
    IF call.args[2] /\ name # <<>>
    THEN /\ ReturnedNil
         /\ call.res.written = <<[name |-> name, content |-> call.rt[1].body]>>
    ELSE /\ ReturnedError
         /\ call.res.written = <<>>

Authenticated(req) ==
    /\ req.authorization = <<"Bearer", Token>>
    /\ \E i \in 1..Len(req.accept) : req.accept[i] = "application/json"

C10_AuthenticatedRequests ==
    call # Idle
        => \A i \in 1..Len(call.res.reqs) :
              call.res.reqs[i].url # <<RexBaseURL, apiAuth>> => Authenticated(call.res.reqs[i])

\* C11: NewClientWithToken returns an error when the current-user request it
\* makes with the token is answered with a status other than 200.
C11_TokenRejected ==
    (call.op = "NewClientWithToken" /\ Answered(1) /\ call.rt[1].status # 200)
        => ReturnedError

\* C12: GetTotalNumberOfUsers returns an error when the /api/v2/users request
\* is answered with a status outside 2xx.
C12_CountRefused ==
    (call.op = "GetTotalNumberOfUsers" /\ Answered(1) /\ call.rt[1].status \notin 200..299)
        => ReturnedError

\* C13: UploadProjectFile returns no error only if all four steps succeeded;
\* when the multipart upload POST (step 4) is answered with a status outside
\* 2xx it returns an error.
C13_UploadRefused ==
    (call.op = "UploadProjectFile" /\ ReturnedNil)
        => /\ Len(call.rt) = 4
           /\ \A k \in 1..4 : Answered(k)
           /\ call.rt[1].status = 200
           /\ call.rt[2].status = 201
           /\ call.rt[3].status = 201
           /\ call.rt[4].status \in 200..299

\* C14: a transport failure of any request of any operation is returned to
\* the caller as an error value; the operation does not panic.
C14_TransportFailureReturned ==
    call # Idle
        => \A k \in 1..Len(call.rt) : Failed(call.rt[k]) => ReturnedError

\* C15: GetProject, GetProjects and DownloadFile return an error when the
\* server answers their request with a status outside 2xx.
C15_ReadRefused ==
    (call.op \in {"GetProject", "GetProjects", "DownloadFile"}
        /\ Answered(1) /\ call.rt[1].status \notin 200..299)
        => ReturnedError

\* C16 as stated: encoding any ProjectAddress or ProjectTransformation to
\* JSON succeeds and decoding the result yields a value equal to the
\* original field for field.
C16_RoundTripAny ==
    /\ (call.op \in {"MarshalAddress", "MarshalTransformation"}) => call.res.err = Nil
    /\ (call.op \in {"UnmarshalAddress", "UnmarshalTransformation"})
          => call.res.value = call.args[1]

\* the strings of the value are valid UTF-8
ValidStrings(strs) == \A str \in strs : \A i \in 1..Len(str) : str[i] # "0xFF"

\* the value has a JSON form that keeps it: its strings are valid UTF-8 and
\* its floats are finite
Representable(op, v) ==
    IF op \in {"MarshalAddress", "UnmarshalAddress"}
    THEN ValidStrings({v.AddressLine1, v.AddressLine2, v.AddressLine3, v.AddressLine4,
                       v.PostCode, v.City, v.Region, v.Country})
    ELSE /\ ValidStrings({v.Position.Type})
         /\ \A f \in {v.Rotation.X, v.Rotation.Y, v.Rotation.Z} : f \notin {"NaN", "+Inf"}
         /\ \A i \in 1..Len(v.Position.Coordinates.elems) :
               v.Position.Coordinates.elems[i] \notin {"NaN", "+Inf"}

\* C16, amended: encoding a ProjectAddress or ProjectTransformation whose
\* strings are valid UTF-8 and whose floats are finite succeeds, and decoding
\* the result yields a value equal to the original field for field.
C16_RoundTrip ==
    (call.op \in {"MarshalAddress", "MarshalTransformation",
                  "UnmarshalAddress", "UnmarshalTransformation"}
        /\ Representable(call.op, call.args[1]))
        => /\ call.res.err = Nil
           /\ (call.op \in {"UnmarshalAddress", "UnmarshalTransformation"})
                 => call.res.value = call.args[1]

C16_Witness ==
    /\ call.op = "UnmarshalAddress"
    /\ call.args[1].AddressLine3 = <<"Graz">>
    /\ call.args[1].AddressLine4 = <<>>
    /\ call.args[1].PostCode = <<"Graz">>
    /\ call.res.value = call.args[1]

\* the number of root references the platform holds for its n-th project
RootCount(n) == Cardinality(RootsOf(server, ProjectLink(server.projects[n])))

\* C17 as stated: after any sequence of CreateProject and UploadProjectFile
\* calls, calls with failing requests included, every project of the
\* platform has exactly one root reference.
C17_ExactlyOneRoot ==
    \A n \in 1..Len(server.projects) : RootCount(n) = 1

\* C17, amended: after any sequence of CreateProject and UploadProjectFile
\* calls, calls with failing requests included, every project of the
\* platform has at most one root reference, and the project of a
\* CreateProject call that returned without error has exactly one.
C17_AtMostOneRoot ==
    /\ \A n \in 1..Len(server.projects) : RootCount(n) <= 1
    /\ (call.op = "CreateProject" /\ ReturnedNil)
          => /\ server.projects # <<>>
             /\ RootCount(Len(server.projects)) = 1

C17_Witness ==
    /\ call.op = "UploadProjectFile"
    /\ ReturnedNil
    /\ Len(server.projects) = 2
    /\ RootCount(1) = 1
    /\ RootCount(2) = 1
    /\ Len(server.references) = 3
    /\ Len(server.files) = 1

\* C18: in every UploadProjectFile, the project-file create request is sent
\* only after a reference-create request of the same call was answered 201,
\* and the rexReference it carries is the self link of that response, a link
\* of a non-root reference that is not empty.
C18_FileAfterReference ==
    (call.op = "UploadProjectFile" /\ Sent(<<RexBaseURL, apiProjectFiles>>) # {})
        => /\ Sent(<<RexBaseURL, apiProjectFiles>>) = {3}
           /\ call.res.reqs[2].url = <<RexBaseURL, apiRexReferences>>
           /\ call.res.reqs[2].payload.rootReference = FALSE
           /\ Answered(2)
           /\ call.rt[2].status = 201
           /\ call.res.reqs[3].payload.rexReference = gjsonString(call.rt[2].body.selfHref)
           /\ call.res.reqs[3].payload.rexReference # ""

\* C19: in an UploadProjectFile all of whose steps succeed, the reference is
\* sent with rootReference = false, the self link of the step 1 response as
\* parentReference and the caller's file transform; the project file is sent
\* with the self link of the reference; the multipart POST goes to the
\* file.upload link of the project-file response.
C19_LinksChained ==
    (call.op = "UploadProjectFile" /\ Len(call.rt) = 4
        /\ (\A k \in 1..4 : Answered(k))
        /\ call.rt[1].status = 200 /\ call.rt[2].status = 201
        /\ call.rt[3].status = 201 /\ call.rt[4].status \in 200..299)
        => /\ ReturnedNil
           /\ Len(call.res.reqs) = 4
           /\ call.res.reqs[2].method = "POST"
           /\ call.res.reqs[2].url = <<RexBaseURL, apiRexReferences>>
           /\ call.res.reqs[2].payload.rootReference = FALSE
           /\ call.res.reqs[2].payload.parentReference = gjsonString(call.rt[1].body.selfHref)
           /\ call.res.reqs[2].payload.fileTransformation = call.args[4]
           /\ call.res.reqs[3].url = <<RexBaseURL, apiProjectFiles>>
           /\ call.res.reqs[3].payload.rexReference = gjsonString(call.rt[2].body.selfHref)
           /\ call.res.reqs[4].method = "POST"
           /\ call.res.reqs[4].url = <<gjsonString(call.rt[3].body.uploadHref)>>
           /\ call.res.reqs[4].payload.kind = "multipart"

C19_Witness ==
    /\ call.op = "UploadProjectFile"
    /\ Len(call.rt) = 4
    /\ call.rt[4].kind = "resp" /\ call.rt[4].status = 200
    /\ ReturnedNil
    /\ call.args[4] = "transformation"
    /\ call.res.reqs[2].payload.parentReference = "rexReferences/1"
    /\ call.res.reqs[2].payload.fileTransformation = "transformation"
    /\ call.res.reqs[3].payload.rexReference = "rexReferences/2"
    /\ call.res.reqs[4].url = <<"projectFiles/7/file">>

\* C20: every Reference payload the library sends has rootReference = true
\* exactly when its parentReference is empty.
C20_RootOrParent ==
    call # Idle
        => \A i \in 1..Len(call.res.reqs) :
              call.res.reqs[i].url = <<RexBaseURL, apiRexReferences>>
                  => (call.res.reqs[i].payload.rootReference
                         <=> call.res.reqs[i].payload.parentReference = "")

\* C21: in Login, CreateProject, UploadProjectFile and GetUserByEmail the
\* body of every response is read to its end or discarded before the next
\* request of the operation is sent and before the operation returns, on the
\* paths that succeed and on the paths that fail.
C21_BodiesDrained ==
    (call.op \in {"Login", "CreateProject", "UploadProjectFile", "GetUserByEmail"})
        => /\ Len(call.res.bodies) = Len(call.rt)
           /\ \A k \in 1..Len(call.rt) :
                 call.rt[k].kind = "resp" => call.res.bodies[k] \in {"read", "discarded"}

C21_Witness ==
    /\ call.op = "GetUserByEmail"
    /\ Len(call.rt) = 2
    /\ Answered(1) /\ Answered(2)
    /\ call.rt[2].status = 500
    /\ call.res.bodies = <<"discarded", "discarded">>

\* the i-th request of the call is the request of the i-th step of its
\* workflow
ForwardStep(c, i) ==
    LET req == c.res.reqs[i]
    IN  IF c.op = "CreateProject"
        THEN \/ i = 1 /\ req.method = "POST" /\ req.url = <<RexBaseURL, apiProjects>>
             \/ i = 2 /\ req.method = "POST" /\ req.url = <<RexBaseURL, apiRexReferences>>
        ELSE \/ i = 1 /\ req.method = "GET"
                /\ req.url = <<RexBaseURL, apiProjects, "/", c.args[1], "/rootRexReference">>
             \/ i = 2 /\ req.method = "POST" /\ req.url = <<RexBaseURL, apiRexReferences>>
             \/ i = 3 /\ req.method = "POST" /\ req.url = <<RexBaseURL, apiProjectFiles>>
             \/ i = 4 /\ req.method = "POST" /\ req.payload.kind = "multipart"

\* the records the platform confirmed to the call with 201 at the endpoint
Confirmed(c, url) ==
    {k \in 1..Len(c.rt) :
        c.rt[k].kind = "resp" /\ c.rt[k].status = 201 /\ c.res.reqs[k].url = url}

\* old is the beginning of new: what was there is still there, unchanged
Kept(old, new) == Len(old) <= Len(new) /\ SubSeq(new, 1, Len(old)) = old

\* C22: a CreateProject or UploadProjectFile, failed or not, sends no request
\* but the requests of its steps (no DELETE, no compensating request), and
\* the projects, references and project files of the platform, those the
\* earlier steps of the call created included, are still there afterwards.
C22_NoRollback ==
    [][(call = Idle /\ call' # Idle)
        => /\ \A i \in 1..Len(call'.res.reqs) : ForwardStep(call', i)
           /\ Kept(server.projects, server'.projects)
           /\ Kept(server.references, server'.references)
           /\ Kept(server.files, server'.files)
           /\ Len(server'.projects)
                 >= Len(server.projects) + Cardinality(Confirmed(call', <<RexBaseURL, apiProjects>>))
           /\ Len(server'.references)
                 >= Len(server.references)
                      + Cardinality(Confirmed(call', <<RexBaseURL, apiRexReferences>>))
           /\ Len(server'.files)
                 >= Len(server.files) + Cardinality(Confirmed(call', <<RexBaseURL, apiProjectFiles>>))
      ]_vars

C22_Witness ==
    /\ call.op = "UploadProjectFile"
    /\ ReturnedError
    /\ Len(call.rt) = 3
    /\ call.rt[2].kind = "resp" /\ call.rt[2].status = 201
    /\ call.rt[3].kind = "resp" /\ call.rt[3].status = 500
    /\ Len(server.projects) = 1
    /\ Len(server.references) = 2
    /\ server.references[2].rootReference = FALSE
    /\ server.files = <<>>

\* C23: a finished operation has sent at least 1 and at most 4 requests, at
\* most as many as it has steps (Login 2, CreateProject 2, GetUserByEmail 2,
\* UploadProjectFile 4, every other operation 1), each of them once: every
\* request was answered by its own outcome of the transport and no request
\* was sent a second time.
C23_OncePerStep ==
    (call # Idle)
        => /\ Len(call.res.reqs) = Len(call.rt)
           /\ Len(call.res.reqs) >= 1
           /\ Len(call.res.reqs) <= 4
           /\ Len(call.res.reqs)
                 <= (IF call.op = "UploadProjectFile" THEN 4
                     ELSE IF call.op \in {"Login", "CreateProject", "GetUserByEmail"} THEN 2
                     ELSE 1)
           /\ \A i, j \in 1..Len(call.res.reqs) :
                 i # j => call.res.reqs[i] # call.res.reqs[j]

\* the part of C23 that holds: no request is sent twice and no operation
\* sends more requests than it has steps
C23_AtMostOncePerStep ==
    (call # Idle)
        => /\ Len(call.res.reqs) = Len(call.rt)
           /\ Len(call.res.reqs)
                 <= (IF call.op = "UploadProjectFile" THEN 4
                     ELSE IF call.op \in {"Login", "CreateProject", "GetUserByEmail"} THEN 2
                     ELSE 1)
           /\ \A i, j \in 1..Len(call.res.reqs) :
                 i # j => call.res.reqs[i] # call.res.reqs[j]

\* C24: a request to the token endpoint is sent by Login only, and an
\* operation other than Login (and the constructor NewClientWithToken, which
\* stores the token it is given) leaves the client's Token and User as they
\* were, whatever the platform answers, 401 for a token it no longer accepts
\* included.
C24_TokenOnDemand ==
    [][(call = Idle /\ call' # Idle)
        => /\ (call'.op # "Login")
                 => \A i \in 1..Len(call'.res.reqs) :
                       call'.res.reqs[i].url # <<RexBaseURL, apiAuth>>
           /\ (call'.op \notin {"Login", "NewClientWithToken"})
                 => Token' = Token /\ User' = User
      ]_vars

C24_Witness ==
    /\ call.op = "GetTotalNumberOfUsers"
    /\ Answered(1) /\ call.rt[1].status = 401
    /\ Token = "tokA" /\ ~User.nil
    /\ call.res.reqs[1].authorization = <<"Bearer", "tokA">>
    /\ Sent(<<RexBaseURL, apiAuth>>) = {}
    /\ Len(call.res.reqs) = 1

\* C25: a Login whose token request fails in transport or is answered with a
\* status other than 200 leaves the client's Token and User as they were
\* before the call.
C25_FailedLoginKeepsToken ==
    [][(/\ call = Idle
        /\ call' # Idle
        /\ call'.op = "Login"
        /\ Len(call'.rt) >= 1
        /\ (Failed(call'.rt[1]) \/ call'.rt[1].status # 200))
        => Token' = Token /\ User' = User
      ]_vars

C25_Witness ==
    /\ call.op = "Login"
    /\ ReturnedError
    /\ Len(call.rt) = 1
    /\ Answered(1) /\ call.rt[1].status = 401
    /\ call.rt[1].body.json /\ call.rt[1].body.access_token = "tokB"
    /\ Token = "tokA" /\ ~User.nil
    /\ Len(call.res.reqs) = 1

====
